---------------------------- MODULE Spec2Model ----------------------------
(***************************************************************************)
(* Neo TTS: the request handlers of app/app.py (generate_audio,            *)
(* get_voices, get_model_module, log_generation) and the kokoro backend    *)
(* of models/kokoro.py (_load_kokoro_model, _get_voice_mapping,            *)
(* list_voices, generate_audio), run by the worker threads of the Flask    *)
(* server.  A handler is split into steps exactly where it reads or writes *)
(* state shared between threads: the module cache, the pipeline global,    *)
(* the ledger file.                                                        *)
(*                                                                         *)
(* Strings: the display names of the source carry emoji; they are written  *)
(* here with an ASCII tag per emoji ([US] for the US flag, [F] and [M] for *)
(* the gender signs, [fire], [heart], [phones]), one tag per emoji, so     *)
(* two display names are equal here exactly when they are equal in the     *)
(* source.  A text is a sequence of one-character strings.                 *)
(***************************************************************************)
EXTENDS Integers, Sequences, FiniteSets, TLC

(* Number of requests the server receives in one run. *)
MaxRequests == 3

(* Worker threads of the server (app.run serves each request on a thread). *)
Threads == {"t1", "t2"}

(* Python's None, for a value that is otherwise a string. *)
None == "<None>"

(***************************************************************************)
(* The voice tables of models/kokoro.py, in source order.                  *)
(***************************************************************************)
VoiceMappingItems ==
  << <<"[US] Alloy [F] (C)", "af_alloy">>,
     <<"[US] Aoede [F] (C+)", "af_aoede">>,
     <<"[US] Bella [F][fire] (A-)", "af_bella">>,
     <<"[US] Heart [F][heart] (A)", "af_heart">>,
     <<"[US] Jessica [F] (D)", "af_jessica">>,
     <<"[US] Kore [F] (C+)", "af_kore">>,
     <<"[US] Nicole [F][phones] (B-)", "af_nicole">>,
     <<"[US] Nova [F] (C)", "af_nova">>,
     <<"[US] River [F] (D)", "af_river">>,
     <<"[US] Sarah [F] (C+)", "af_sarah">>,
     <<"[US] Sky [F] (C-)", "af_sky">>,
     <<"[US] Adam [M] (F+)", "am_adam">>,
     <<"[US] Echo [M] (D)", "am_echo">>,
     <<"[US] Eric [M] (D)", "am_eric">>,
     <<"[US] Fenrir [M] (C+)", "am_fenrir">>,
     <<"[US] Liam [M] (D)", "am_liam">>,
     <<"[US] Michael [M] (C+)", "am_michael">>,
     <<"[US] Onyx [M] (D)", "am_onyx">>,
     <<"[US] Puck [M] (C+)", "am_puck">>,
     <<"[US] Santa [M] (D-)", "am_santa">>,
     <<"[GB] Alice [F] (D)", "bf_alice">>,
     <<"[GB] Emma [F] (B-)", "bf_emma">>,
     <<"[GB] Isabella [F] (C)", "bf_isabella">>,
     <<"[GB] Lily [F] (D)", "bf_lily">>,
     <<"[GB] Daniel [M] (D)", "bm_daniel">>,
     <<"[GB] Fable [M] (C)", "bm_fable">>,
     <<"[GB] George [M] (C)", "bm_george">>,
     <<"[GB] Lewis [M] (D+)", "bm_lewis">>,
     <<"[JP] Alpha [F] (C+)", "jf_alpha">>,
     <<"[JP] Gongitsune [F] (C)", "jf_gongitsune">>,
     <<"[JP] Nezumi [F] (C-)", "jf_nezumi">>,
     <<"[JP] Tebukuro [F] (C)", "jf_tebukuro">>,
     <<"[JP] Kumo [M] (C-)", "jm_kumo">>,
     <<"[CN] Xiaobei [F] (D)", "zf_xiaobei">>,
     <<"[CN] Xiaoni [F] (D)", "zf_xiaoni">>,
     <<"[CN] Xiaoxiao [F] (D)", "zf_xiaoxiao">>,
     <<"[CN] Xiaoyi [F] (D)", "zf_xiaoyi">>,
     <<"[CN] Yunjian [M] (D)", "zm_yunjian">>,
     <<"[CN] Yunxi [M] (D)", "zm_yunxi">>,
     <<"[CN] Yunxia [M] (D)", "zm_yunxia">>,
     <<"[CN] Yunyang [M] (D)", "zm_yunyang">>,
     <<"[ES] Dora [F]", "ef_dora">>,
     <<"[ES] Alex [M]", "em_alex">>,
     <<"[ES] Santa [M]", "em_santa">>,
     <<"[FR] Siwis [F] (B-)", "ff_siwis">>,
     <<"[IN] Alpha [F] (C)", "hf_alpha">>,
     <<"[IN] Beta [F] (C)", "hf_beta">>,
     <<"[IN] Omega [M] (C)", "hm_omega">>,
     <<"[IN] Psi [M] (C)", "hm_psi">>,
     <<"[IT] Sara [F] (C)", "if_sara">>,
     <<"[IT] Nicola [M] (C)", "im_nicola">>,
     <<"[BR] Dora [F]", "pf_dora">>,
     <<"[BR] Alex [M]", "pm_alex">>,
     <<"[BR] Santa [M]", "pm_santa">> >>

VoiceFormatItems ==
  << <<"af_alloy", "[US] Alloy [F] (C)">>,
     <<"af_aoede", "[US] Aoede [F] (C+)">>,
     <<"af_bella", "[US] Bella [F][fire] (A-)">>,
     <<"af_heart", "[US] Heart [F][heart] (A)">>,
     <<"af_jessica", "[US] Jessica [F] (D)">>,
     <<"af_kore", "[US] Kore [F] (C+)">>,
     <<"af_nicole", "[US] Nicole [F][phones] (B-)">>,
     <<"af_nova", "[US] Nova [F] (C)">>,
     <<"af_river", "[US] River [F] (D)">>,
     <<"af_sarah", "[US] Sarah [F] (C+)">>,
     <<"af_sky", "[US] Sky [F] (C-)">>,
     <<"am_adam", "[US] Adam [M] (F+)">>,
     <<"am_echo", "[US] Echo [M] (D)">>,
     <<"am_eric", "[US] Eric [M] (D)">>,
     <<"am_fenrir", "[US] Fenrir [M] (C+)">>,
     <<"am_liam", "[US] Liam [M] (D)">>,
     <<"am_michael", "[US] Michael [M] (C+)">>,
     <<"am_onyx", "[US] Onyx [M] (D)">>,
     <<"am_puck", "[US] Puck [M] (C+)">>,
     <<"am_santa", "[US] Santa [M] (D-)">>,
     <<"bf_alice", "[GB] Alice [F] (D)">>,
     <<"bf_emma", "[GB] Emma [F] (B-)">>,
     <<"bf_isabella", "[GB] Isabella [F] (C)">>,
     <<"bf_lily", "[GB] Lily [F] (D)">>,
     <<"bm_daniel", "[GB] Daniel [M] (D)">>,
     <<"bm_fable", "[GB] Fable [M] (C)">>,
     <<"bm_george", "[GB] George [M] (C)">>,
     <<"bm_lewis", "[GB] Lewis [M] (D+)">>,
     <<"jf_alpha", "[JP] Alpha [F] (C+)">>,
     <<"jf_gongitsune", "[JP] Gongitsune [F] (C)">>,
     <<"jf_nezumi", "[JP] Nezumi [F] (C-)">>,
     <<"jf_tebukuro", "[JP] Tebukuro [F] (C)">>,
     <<"jm_kumo", "[JP] Kumo [M] (C-)">>,
     <<"zf_xiaobei", "[CN] Xiaobei [F] (D)">>,
     <<"zf_xiaoni", "[CN] Xiaoni [F] (D)">>,
     <<"zf_xiaoxiao", "[CN] Xiaoxiao [F] (D)">>,
     <<"zf_xiaoyi", "[CN] Xiaoyi [F] (D)">>,
     <<"zm_yunjian", "[CN] Yunjian [M] (D)">>,
     <<"zm_yunxi", "[CN] Yunxi [M] (D)">>,
     <<"zm_yunxia", "[CN] Yunxia [M] (D)">>,
     <<"zm_yunyang", "[CN] Yunyang [M] (D)">>,
     <<"ef_dora", "[ES] Dora [F]">>,
     <<"em_alex", "[ES] Alex [M]">>,
     <<"em_santa", "[ES] Santa [M]">>,
     <<"ff_siwis", "[FR] Siwis [F] (B-)">>,
     <<"hf_alpha", "[IN] Alpha [F] (C)">>,
     <<"hf_beta", "[IN] Beta [F] (C)">>,
     <<"hm_omega", "[IN] Omega [M] (C)">>,
     <<"hm_psi", "[IN] Psi [M] (C)">>,
     <<"if_sara", "[IT] Sara [F] (C)">>,
     <<"im_nicola", "[IT] Nicola [M] (C)">>,
     <<"pf_dora", "[BR] Dora [F]">>,
     <<"pm_alex", "[BR] Alex [M]">>,
     <<"pm_santa", "[BR] Santa [M]">> >>

(* models/kokoro.py, voice_formats with one entry pointing at another     *)
(* voice's label.                                                          *)
voice_formats_crossed ==
  [c \in {p[1] : p \in {VoiceFormatItems[i] : i \in DOMAIN VoiceFormatItems}} |->
     IF c = "af_bella" THEN "[US] Alloy [F] (C)"
     ELSE (CHOOSE p \in {VoiceFormatItems[i] : i \in DOMAIN VoiceFormatItems} : p[1] = c)[2]]

(* The dict literal of _get_voice_mapping: display name -> code. *)
voice_mapping ==
  [d \in {VoiceMappingItems[i][1] : i \in DOMAIN VoiceMappingItems} |->
     (CHOOSE p \in {VoiceMappingItems[i] : i \in DOMAIN VoiceMappingItems} : p[1] = d)[2]]

(* The dict literal voice_formats of list_voices: code -> display name. *)
voice_formats ==
  [c \in {VoiceFormatItems[i][1] : i \in DOMAIN VoiceFormatItems} |->
     (CHOOSE p \in {VoiceFormatItems[i] : i \in DOMAIN VoiceFormatItems} : p[1] = c)[2]]

(* The four labels list_voices returns when the pipeline cannot be loaded. *)
FallbackVoices ==
  << "[US] Alloy [F] (C)", "[US] Adam [M] (F+)",
     "[GB] Emma [F] (B-)", "[GB] Daniel [M] (D)" >>

(* The code generate_audio uses when voice is None. *)
DefaultVoice == "af_alloy"

(***************************************************************************)
(* app/app.py: the registry and the ledger's format.                       *)
(***************************************************************************)
MODELS == {"kokoro"}

Header == <<"timestamp", "model", "speaker", "text", "duration", "output_path">>

ExcerptLen == 100

(* text[:100] + "..." if len(text) > 100 else text *)
Excerpt(text) ==
  IF Len(text) > ExcerptLen
    THEN SubSeq(text, 1, ExcerptLen) \o <<".", ".", ".">>
    ELSE text

(* log_generation recording, for an omitted voice, the code the backend    *)
(* used in its place.                                                      *)
LedgerRow_default_code(model, speaker, text, output_path) ==
  << "YYYY-MM-DD HH:MM:SS", model,
     IF speaker = None \/ speaker = "" THEN DefaultVoice ELSE speaker,
     Excerpt(text), "0.00", output_path >>

(* The row log_generation writes; speaker or "default" takes the literal   *)
(* for None and for the empty string.  The clock and the probed duration   *)
(* are outside the model: every row carries the same stamp and duration.   *)
LedgerRow(model, speaker, text, output_path) ==
  << "YYYY-MM-DD HH:MM:SS", model,
     IF speaker = None \/ speaker = "" THEN "default" ELSE speaker,
     Excerpt(text), "0.00", output_path >>

(* str.strip() *)
Whitespace == {" ", "\t", "\n"}

RECURSIVE LStrip(_)
LStrip(s) ==
  IF s # <<>> /\ Head(s) \in Whitespace THEN LStrip(Tail(s)) ELSE s

RECURSIVE RStrip(_)
RStrip(s) ==
  IF s # <<>> /\ s[Len(s)] \in Whitespace
    THEN RStrip(SubSeq(s, 1, Len(s) - 1)) ELSE s

Strip(s) == RStrip(LStrip(s))

(* generate_audio accepting any text: the check on the text left out. *)
ValidationError_no_text_check(model_name, text) ==
  IF model_name = None \/ model_name = "" \/ model_name \notin MODELS
    THEN "Invalid model"
  ELSE None

(* The two checks at the head of generate_audio; None when both pass. *)
ValidationError(model_name, text) ==
  IF model_name = None \/ model_name = "" \/ model_name \notin MODELS
    THEN "Invalid model"
  ELSE IF text = <<>> THEN "Text is required"
  ELSE None

(***************************************************************************)
(* models/kokoro.py: the pipeline and the voice helpers.                   *)
(***************************************************************************)

(* _kokoro_pipeline = None.  A pipeline is its identity (the number of the *)
(* KPipeline construction that made it) and the keys of pipeline.voices in *)
(* insertion order.                                                        *)
NonePipeline == [id |-> 0, voices |-> <<>>]

(* _load_kokoro_model constructing a pipeline on every call. *)
PipelineCached_never(p) == FALSE

(* _kokoro_pipeline is not None *)
PipelineCached(p) == p.id # 0

(* generate_audio looking the name up without testing membership first,    *)
(* and so never converting.                                                *)
Resolve_no_mapping(v) == v

(* if voice in voice_mapping: voice = voice_mapping[voice] *)
Resolve(v) ==
  IF v \in DOMAIN voice_mapping THEN voice_mapping[v] ELSE v

(* The availability test left out. *)
VoiceAvailable_unchecked(v, p) == TRUE

(* voice in pipeline.voices *)
VoiceAvailable(v, p) ==
  \E i \in DOMAIN p.voices : p.voices[i] = v

(* list_voices dropping the codes it has no label for. *)
RECURSIVE FormatVoices_known_only(_)
FormatVoices_known_only(raw_voices) ==
  IF raw_voices = <<>> THEN <<>>
  ELSE IF Head(raw_voices) \in DOMAIN voice_formats
    THEN <<voice_formats[Head(raw_voices)]>> \o FormatVoices_known_only(Tail(raw_voices))
    ELSE FormatVoices_known_only(Tail(raw_voices))

(* voice_formats.get(voice, f"{voice} (Unknown)") *)
FormatVoice(v) ==
  IF v \in DOMAIN voice_formats
    THEN voice_formats[v]
    ELSE v \o " (Unknown)"

(* The loop of list_voices over raw_voices, appending one label per code. *)
RECURSIVE FormatVoices(_)
FormatVoices(raw_voices) ==
  IF raw_voices = <<>> THEN <<>>
  ELSE <<FormatVoice(Head(raw_voices))>> \o FormatVoices(Tail(raw_voices))

(* The ledger file opened for writing instead of appending. *)
AppendToFile_truncating(content, rows) == rows

(* open(log_file, 'a') and the flush of the writer's buffer at close: the  *)
(* header (if any) and the row reach the file in one write at its end.     *)
AppendToFile(content, rows) == content \o rows

(***************************************************************************)
(* What the clients send and what the disk holds.                          *)
(***************************************************************************)
ModelInputs == {None, "kokoro", "bogus"}

VoiceInputs ==
  {None, "af_bella", "[US] Alloy [F] (C)", "[US] Adam [M] (F+)", "xx_custom"}

TextInputs == { <<>>, <<" ", "\t">>, <<" ", "h", "i", " ">> }

(* The bodies POSTed to /api/generate: every voice with a valid model and  *)
(* text, and every combination of model and text with one voice.           *)
GenerateInputs ==
  { [kind |-> "generate", model |-> "kokoro", voice |-> v,
     text |-> <<" ", "h", "i", " ">>] : v \in VoiceInputs }
  \cup
  { [kind |-> "generate", model |-> m, voice |-> "af_bella", text |-> x] :
      m \in ModelInputs, x \in TextInputs }

(* The stems of the *.pt files of VOICES_DIR that torch.load accepts, in   *)
(* the order glob yields them.                                             *)
VoiceDirListings ==
  { <<>>,
    <<"af_alloy", "af_bella">>,
    <<"xx_custom", "af_alloy">>,
    <<"af_bella", "yy_other", "af_alloy", "xx_custom">> }

VARIABLES
  _model_modules,    \* app.py: cache of imported backend modules, by model name
  sys_modules,       \* the interpreter's table of imported modules
  _kokoro_pipeline,  \* kokoro.py: the global pipeline, NonePipeline before a load
  pipelineInits,     \* how many times KPipeline(...) has been constructed
  voice_files,       \* the listing of VOICES_DIR
  ledger,            \* logs/results.csv: its rows; <<>> when the file is absent
  sfWrites,          \* how many times sf.write has written an output file
  ledgerErrors,      \* how many times opening or writing the ledger has raised
  received,          \* requests received so far
  pc,                \* per thread: where its handler stands
  req,               \* per thread: the request it serves
  pipeline,          \* per thread: the local `pipeline` of the backend function
  voice,             \* per thread: the local `voice` of kokoro.generate_audio
  synth,             \* per thread: the voice the pipeline was called with, or None
  file_exists,       \* per thread: the local `file_exists` of log_generation
  resp               \* per thread: the response returned

vars ==
  << _model_modules, sys_modules, _kokoro_pipeline, pipelineInits, voice_files,
     ledger, sfWrites, ledgerErrors, received, pc, req, pipeline, voice, synth,
     file_exists, resp >>

shared ==
  << _model_modules, sys_modules, _kokoro_pipeline, pipelineInits, voice_files,
     ledger, sfWrites, ledgerErrors >>

NoRequest == [kind |-> "none", model |-> None, voice |-> None, text |-> <<>>]
NoResponse == [status |-> 0, kind |-> "none", payload |-> None]

ErrorResponse(status, message) ==
  [status |-> status, kind |-> "error", payload |-> message]

(* jsonify({"audio_url": ..., "model": ..., "voice": ..., ...}), status 200 *)
AudioResponse(model_name, v) ==
  [status |-> 200, kind |-> "audio",
   payload |-> [audio_url |-> "/static/output/" \o model_name \o "_TS.wav",
                model |-> model_name, voice |-> v]]

(* jsonify({"voices": voices}), status 200 *)
VoicesResponse(voices) == [status |-> 200, kind |-> "voices", payload |-> voices]

(* list_voices without its except clause: the load error reaches          *)
(* get_voices, which answers 500.                                          *)
LoadFailureResponse_propagating(kind) ==
  ErrorResponse(500, "Kokoro generation failed: load")

(* What the handler answers when _load_kokoro_model raises:                *)
(* kokoro.generate_audio wraps the error and app.generate_audio answers    *)
(* 500 with its message; list_voices catches it and returns its fixed      *)
(* list, which get_voices answers with 200.                                *)
LoadFailureResponse(kind) ==
  IF kind = "generate"
    THEN ErrorResponse(500, "Kokoro generation failed: load")
    ELSE VoicesResponse(FallbackVoices)

(* f"{model_name}_{timestamp}.wav" under OUTPUT_DIR *)
OutputPath(model_name) == "static/output/" \o model_name \o "_TS.wav"

Init ==
  /\ _model_modules = [m \in {} |-> None]
  /\ sys_modules = {}
  /\ _kokoro_pipeline = NonePipeline
  /\ pipelineInits = 0
  /\ voice_files \in VoiceDirListings
  /\ ledger = <<>>
  /\ sfWrites = 0
  /\ ledgerErrors = 0
  /\ received = 0
  /\ pc = [t \in Threads |-> "idle"]
  /\ req = [t \in Threads |-> NoRequest]
  /\ pipeline = [t \in Threads |-> NonePipeline]
  /\ voice = [t \in Threads |-> None]
  /\ synth = [t \in Threads |-> None]
  /\ file_exists = [t \in Threads |-> FALSE]
  /\ resp = [t \in Threads |-> NoResponse]

(* A thread takes a request: its locals are fresh. *)
Accept(t, r) ==
  /\ pc[t] \in {"idle", "done"}
  /\ received < MaxRequests
  /\ received' = received + 1
  /\ req' = [req EXCEPT ![t] = r]
  /\ pipeline' = [pipeline EXCEPT ![t] = NonePipeline]
  /\ voice' = [voice EXCEPT ![t] = None]
  /\ synth' = [synth EXCEPT ![t] = None]
  /\ file_exists' = [file_exists EXCEPT ![t] = FALSE]

(* The thread's handler returns `r`. *)
Return(t, r) ==
  /\ resp' = [resp EXCEPT ![t] = r]
  /\ pc' = [pc EXCEPT ![t] = "done"]

(* POST /api/generate: read the body, validate. *)
generate_audio(t) ==
  \E r \in GenerateInputs :
    /\ Accept(t, r)
    /\ LET err == ValidationError(r.model, Strip(r.text)) IN
         IF err # None
           THEN Return(t, ErrorResponse(400, err))
           ELSE /\ pc' = [pc EXCEPT ![t] = "get_module"]
                /\ resp' = [resp EXCEPT ![t] = NoResponse]
    /\ UNCHANGED shared

(* GET /api/voices/<model_name> *)
get_voices(t) ==
  \E m \in ModelInputs \ {None} :
    /\ Accept(t, [kind |-> "voices", model |-> m, voice |-> None, text |-> <<>>])
    /\ pc' = [pc EXCEPT ![t] = "get_module"]
    /\ resp' = [resp EXCEPT ![t] = NoResponse]
    /\ UNCHANGED shared

(* get_model_module up to the import: the test of the cache and of MODELS. *)
get_model_module(t) ==
  /\ pc[t] = "get_module"
  /\ IF req[t].model \in DOMAIN _model_modules
       THEN pc' = [pc EXCEPT ![t] = "backend"] /\ UNCHANGED resp
     ELSE IF req[t].model \notin MODELS
       THEN Return(t, ErrorResponse(500, "Unknown model"))
     ELSE pc' = [pc EXCEPT ![t] = "import"] /\ UNCHANGED resp
  /\ UNCHANGED << shared, received, req, pipeline, voice, synth, file_exists >>

(* importlib.import_module and the store into the cache.  An import that   *)
(* succeeded once is answered from sys.modules; one that raises            *)
(* ImportError leaves no entry and the handler answers 500.                *)
import_module(t) ==
  /\ pc[t] = "import"
  /\ \/ /\ sys_modules' = sys_modules \cup {"models.kokoro"}
        /\ _model_modules' =
             [m \in DOMAIN _model_modules \cup {req[t].model} |-> "models.kokoro"]
        /\ pc' = [pc EXCEPT ![t] = "backend"]
        /\ UNCHANGED resp
     \/ /\ "models.kokoro" \notin sys_modules
        /\ Return(t, ErrorResponse(500, "Failed to load model"))
        /\ UNCHANGED << sys_modules, _model_modules >>
  /\ UNCHANGED << _kokoro_pipeline, pipelineInits, voice_files, ledger, sfWrites,
                  ledgerErrors, received, req, pipeline, voice, synth, file_exists >>

(* The head of the backend call (kokoro.generate_audio or list_voices) up  *)
(* to the test in _load_kokoro_model: the default voice, then the read of  *)
(* the global.                                                             *)
_load_kokoro_model(t) ==
  /\ pc[t] = "backend"
  /\ voice' = [voice EXCEPT ![t] =
                 IF req[t].kind = "generate" /\ req[t].voice = None
                   THEN DefaultVoice ELSE req[t].voice]
  /\ IF PipelineCached(_kokoro_pipeline)
       THEN /\ pipeline' = [pipeline EXCEPT ![t] = _kokoro_pipeline]
            /\ pc' = [pc EXCEPT ![t] =
                        IF req[t].kind = "generate" THEN "synthesize" ELSE "format"]
       ELSE /\ pc' = [pc EXCEPT ![t] = "construct"]
            /\ UNCHANGED pipeline
  /\ UNCHANGED << shared, received, req, synth, file_exists, resp >>

(* The rest of _load_kokoro_model: KPipeline(...), the voices of           *)
(* VOICES_DIR, the store into the global.  When it raises,                 *)
(* kokoro.generate_audio wraps the error and the handler answers 500;      *)
(* list_voices answers with its fixed list.                                *)
KPipeline(t) ==
  /\ pc[t] = "construct"
  /\ \/ /\ pipelineInits' = pipelineInits + 1
        /\ _kokoro_pipeline' = [id |-> pipelineInits + 1, voices |-> voice_files]
        /\ pipeline' = [pipeline EXCEPT ![t] = _kokoro_pipeline']
        /\ pc' = [pc EXCEPT ![t] =
                    IF req[t].kind = "generate" THEN "synthesize" ELSE "format"]
        /\ UNCHANGED resp
     \/ /\ Return(t, LoadFailureResponse(req[t].kind))
        /\ UNCHANGED << _kokoro_pipeline, pipelineInits, pipeline >>
  /\ UNCHANGED << _model_modules, sys_modules, voice_files, ledger, sfWrites,
                  ledgerErrors, received, req, voice, synth, file_exists >>

(* list_voices once the pipeline is there. *)
list_voices(t) ==
  /\ pc[t] = "format"
  /\ Return(t, VoicesResponse(FormatVoices(pipeline[t].voices)))
  /\ UNCHANGED << shared, received, req, pipeline, voice, synth, file_exists >>

(* kokoro.generate_audio once the pipeline is there: the conversion of the *)
(* voice, the availability test, the pipeline call with the collection of  *)
(* its segments, sf.write.  The pipeline may raise or yield nothing.       *)
kokoro_generate_audio(t) ==
  /\ pc[t] = "synthesize"
  /\ LET code == Resolve(voice[t]) IN
       /\ voice' = [voice EXCEPT ![t] = code]
       /\ IF ~VoiceAvailable(code, pipeline[t])
            THEN /\ Return(t, ErrorResponse(500, "Kokoro generation failed: voice"))
                 /\ UNCHANGED << synth, sfWrites >>
            ELSE /\ synth' = [synth EXCEPT ![t] = code]
                 /\ \/ /\ sfWrites' = sfWrites + 1
                       /\ pc' = [pc EXCEPT ![t] = "log_generation"]
                       /\ UNCHANGED resp
                    \/ /\ Return(t, ErrorResponse(500, "Kokoro generation failed: synthesis"))
                       /\ UNCHANGED sfWrites
  /\ UNCHANGED << _model_modules, sys_modules, _kokoro_pipeline, pipelineInits,
                  voice_files, ledger, ledgerErrors, received, req, pipeline,
                  file_exists >>

(* log_generation up to the open: file_exists = os.path.exists(log_file). *)
log_generation(t) ==
  /\ pc[t] = "log_generation"
  /\ file_exists' = [file_exists EXCEPT ![t] = (ledger # <<>>)]
  /\ pc' = [pc EXCEPT ![t] = "write_log"]
  /\ UNCHANGED << shared, received, req, pipeline, voice, synth, resp >>

(* The with-block of log_generation and the return of the handler.  The    *)
(* open or the write may raise: the handler's except clauses then answer   *)
(* 500.                                                                    *)
write_log(t) ==
  /\ pc[t] = "write_log"
  /\ \/ /\ ledger' = AppendToFile(ledger,
                       (IF file_exists[t] THEN <<>> ELSE <<Header>>) \o
                       << LedgerRow(req[t].model, req[t].voice, Strip(req[t].text),
                                    OutputPath(req[t].model)) >>)
        /\ Return(t, AudioResponse(req[t].model, req[t].voice))
        /\ UNCHANGED ledgerErrors
     \/ /\ ledgerErrors' = ledgerErrors + 1
        /\ Return(t, ErrorResponse(500, "OSError"))
        /\ UNCHANGED ledger
  /\ UNCHANGED << _model_modules, sys_modules, _kokoro_pipeline, pipelineInits,
                  voice_files, sfWrites, received, req, pipeline, voice, synth,
                  file_exists >>

Next ==
  \E t \in Threads :
    \/ generate_audio(t)
    \/ get_voices(t)
    \/ get_model_module(t)
    \/ import_module(t)
    \/ _load_kokoro_model(t)
    \/ KPipeline(t)
    \/ list_voices(t)
    \/ kokoro_generate_audio(t)
    \/ log_generation(t)
    \/ write_log(t)

Spec == Init /\ [][Next]_vars

(***************************************************************************)
(* Properties.                                                             *)
(***************************************************************************)
Idle(t) == pc[t] \in {"idle", "done"}

DataRows(rows) == Cardinality({i \in DOMAIN rows : rows[i] # Header})

Logging == {t \in Threads : pc[t] \in {"log_generation", "write_log"}}

DisplayNames == DOMAIN voice_mapping

KnownCodes == DOMAIN voice_formats

IsPrefix(s, r) == Len(s) <= Len(r) /\ SubSeq(r, 1, Len(s)) = s

(* C1: starting from an absent log file, whatever the interleaving of the  *)
(* generations, the ledger holds exactly one header, as its first row, and *)
(* after it only six-field data rows; once every handler has returned      *)
(* there is one data row per generation that returned success.             *)
C1_OneHeaderThenOneRowPerGeneration ==
  ledger # <<>> =>
    /\ ledger[1] = Header
    /\ \A i \in 2..Len(ledger) : ledger[i] # Header
    /\ \A i \in DOMAIN ledger : Len(ledger[i]) = 6
    /\ (\A t \in Threads : Idle(t)) => DataRows(ledger) = sfWrites - ledgerErrors

(* A generate request fails validation: no model name, a name that is not  *)
(* registered, or a text with nothing but whitespace in it.                *)
FailsValidation(r) ==
  /\ r.kind = "generate"
  /\ \/ r.model = None
     \/ r.model \notin {"kokoro"}
     \/ \A i \in DOMAIN r.text : r.text[i] \in {" ", "\t", "\n"}

(* C2: a generate request that fails validation is answered with an error  *)
(* and a non-success status, its handler never gets past the validation    *)
(* (no backend module, pipeline or synthesis for it), and the step that     *)
(* takes it leaves the module cache, the pipeline, the output files and    *)
(* the ledger as they were.                                                *)
C2_InvalidRequestHasNoEffect ==
  [][ /\ \A t \in Threads :
           FailsValidation(req'[t]) =>
             /\ pc'[t] = "done"
             /\ resp'[t].kind = "error"
             /\ resp'[t].status >= 400
             /\ pipeline'[t] = NonePipeline
             /\ synth'[t] = None
      /\ (received' # received /\ \E t \in Threads : FailsValidation(req'[t]) /\ Idle(t) /\ pc'[t] = "done")
           => /\ _model_modules' = _model_modules
              /\ sys_modules' = sys_modules
              /\ _kokoro_pipeline' = _kokoro_pipeline
              /\ pipelineInits' = pipelineInits
              /\ sfWrites' = sfWrites
              /\ ledger' = ledger
    ]_vars

(* C2's case: a whitespace-only text was refused with 400 while the cache, *)
(* the pipeline and the ledger were all populated.                         *)
C2_Witness ==
  \E t \in Threads :
    /\ req[t].kind = "generate" /\ req[t].model = "kokoro"
    /\ req[t].text = <<" ", "\t">>
    /\ pc[t] = "done" /\ resp[t].status = 400
    /\ _kokoro_pipeline # NonePipeline
    /\ ledger # <<>>

(* C3 as stated: once a caller holds the pipeline a load returned to it,   *)
(* every call that starts afterwards gets that same instance and does not  *)
(* go on to construct one.                                                 *)
C3_LaterCallsGetTheSameInstance ==
  [][ \A a, c \in Threads :
        (a # c /\ pipeline[a] # NonePipeline /\ pc[c] = "backend" /\ pc'[c] # "backend")
          => pipeline'[c] = pipeline[a] /\ pc'[c] # "construct"
    ]_vars

(* C3, amended: once a load has stored a pipeline and no caller is still   *)
(* inside a construction it began before that, the stored instance never   *)
(* changes, nothing is constructed again, and every call that starts gets  *)
(* the stored instance; and a module once cached by get_model_module stays *)
(* cached, the same module, and is not imported again.                     *)
C3_CachedOnceNoFirstUseInFlight ==
  [][ /\ (_kokoro_pipeline # NonePipeline /\ \A t \in Threads : pc[t] # "construct")
           => /\ _kokoro_pipeline' = _kokoro_pipeline
              /\ pipelineInits' = pipelineInits
              /\ \A c \in Threads :
                   (pc[c] = "backend" /\ pc'[c] # "backend")
                     => pipeline'[c] = _kokoro_pipeline /\ pc'[c] # "construct"
      /\ \A m \in DOMAIN _model_modules :
           /\ m \in DOMAIN _model_modules'
           /\ _model_modules'[m] = _model_modules[m]
           /\ sys_modules' = sys_modules
           /\ \A c \in Threads :
                (pc[c] = "get_module" /\ req[c].model = m) => pc'[c] # "import"
    ]_vars

(* C3's case: two callers hold the one pipeline that was ever constructed. *)
C3_Witness ==
  \E a, c \in Threads :
    /\ a # c
    /\ pipelineInits = 1
    /\ pipeline[a] = _kokoro_pipeline /\ pipeline[c] = _kokoro_pipeline
    /\ _kokoro_pipeline # NonePipeline

(* C4: when the generation has written its file and the ledger append      *)
(* raises, the handler still answers with the success result and the file  *)
(* stays.                                                                  *)
C4_LedgerFailureStillSucceeds ==
  [][ \A t \in Threads :
        (pc[t] = "write_log" /\ pc'[t] = "done" /\ ledgerErrors' # ledgerErrors)
          => /\ resp'[t].status = 200
             /\ resp'[t].kind = "audio"
             /\ sfWrites' = sfWrites
    ]_vars

(* The code a request's voice stands for: the default when omitted, the    *)
(* code of a display name, the identifier itself otherwise.                *)
CodeOf(v) ==
  IF v = None THEN "af_alloy"
  ELSE IF v \in DisplayNames THEN voice_mapping[v]
  ELSE v

Loaded(p) == {p.voices[i] : i \in DOMAIN p.voices}

(* C5: the pipeline is only ever called with a voice that is among its     *)
(* loaded voices and is no display name, a display name having been        *)
(* replaced by its code; and a request whose code is not loaded is         *)
(* answered with an error, without a pipeline call or an output file.      *)
C5_SynthesisOnlyWithLoadedCode ==
  [][ \A t \in Threads :
        /\ synth'[t] # None =>
             /\ synth'[t] \in Loaded(pipeline'[t])
             /\ synth'[t] \notin DisplayNames
             /\ synth'[t] = CodeOf(req'[t].voice)
        /\ (pc[t] = "synthesize" /\ pc'[t] # "synthesize"
              /\ CodeOf(req[t].voice) \notin Loaded(pipeline[t]))
             => /\ pc'[t] = "done"
                /\ resp'[t].kind = "error"
                /\ resp'[t].status >= 400
                /\ synth'[t] = None
                /\ sfWrites' = sfWrites
    ]_vars

(* C5's case: a display name was sent and the pipeline was called with its *)
(* code, while another request's code was not loaded and was refused.      *)
C5_Witness ==
  \E t, u \in Threads :
    /\ req[t].voice = "[US] Alloy [F] (C)" /\ synth[t] = "af_alloy"
    /\ req[u].voice = "[US] Adam [M] (F+)" /\ pc[u] = "done"
    /\ pipeline[u] # NonePipeline /\ synth[u] = None /\ resp[u].kind = "error"

C7_OneRowPerCompletedGeneration ==
  DataRows(ledger) + Cardinality(Logging) = sfWrites

(* C7, amended: the ledger only grows at its end; it holds one data row    *)
(* per completed generation whose append did not raise; a row is added     *)
(* only by the append of a request whose generation completed, one row     *)
(* per append; a request answered with an error adds none and its handler  *)
(* is over.                                                                *)
C7_AppendOnlyOneRowPerLoggedGeneration ==
  [][ /\ IsPrefix(ledger, ledger')
      /\ DataRows(ledger') + Cardinality(Logging') = sfWrites' - ledgerErrors'
      /\ ledger' # ledger =>
           /\ DataRows(ledger') = DataRows(ledger) + 1
           /\ \E t \in Threads :
                /\ pc[t] = "write_log" /\ pc'[t] = "done"
                /\ synth[t] # None
                /\ resp'[t].kind = "audio"
      /\ \A t \in Threads :
           (~Idle(t) /\ pc'[t] = "done" /\ resp'[t].kind = "error")
             => ledger' = ledger
    ]_vars

(* C7's case: one generation was logged after another's append had raised. *)
C7_Witness ==
  /\ ledgerErrors = 1
  /\ DataRows(ledger) = 1
  /\ sfWrites = 2
  /\ \A t \in Threads : Idle(t)

(* The handler of t has run the voice conversion of kokoro.generate_audio. *)
Converted(t) ==
  /\ req[t].kind = "generate"
  /\ \/ pc[t] \in {"log_generation", "write_log"}
     \/ pc[t] = "done" /\ pipeline[t] # NonePipeline

(* Resolve on every code and display name of the tables, and on           *)
(* identifiers that are in neither.                                        *)
ResolveOnTables ==
  /\ \A c \in KnownCodes : Resolve(c) = c
  /\ \A d \in DisplayNames : Resolve(d) = voice_mapping[d]
  /\ \A x \in {"xx_custom", "yy_other", "", "default", "[US] Alloy", "af_alloy "} :
       Resolve(x) = x

(* C8: resolution maps every known code to itself, every display name to   *)
(* its code and every other identifier to itself; so does the conversion   *)
(* a running request goes through.                                         *)
C8_ResolveTotal ==
  /\ ResolveOnTables
  /\ \A t \in Threads :
       (Converted(t) /\ req[t].voice # None) =>
         voice[t] = IF req[t].voice \in DisplayNames
                      THEN voice_mapping[req[t].voice] ELSE req[t].voice

(* C8's case: one request's display name was converted to its code while   *)
(* another's unknown identifier passed through.                            *)
C8_Witness ==
  \E t, u \in Threads :
    /\ Converted(t) /\ req[t].voice = "[US] Adam [M] (F+)" /\ voice[t] = "am_adam"
    /\ Converted(u) /\ req[u].voice = "xx_custom" /\ voice[u] = "xx_custom"

(* The two tables against each other, entry by entry. *)
TablesInverse ==
  /\ \A c \in DOMAIN voice_formats :
       voice_formats[c] \in DOMAIN voice_mapping /\ voice_mapping[voice_formats[c]] = c
  /\ \A d \in DOMAIN voice_mapping :
       voice_mapping[d] \in DOMAIN voice_formats /\ voice_formats[voice_mapping[d]] = d
  /\ \A c1, c2 \in DOMAIN voice_formats :
       voice_formats[c1] = voice_formats[c2] => c1 = c2
  /\ DOMAIN voice_mapping \cap DOMAIN voice_formats = {}

(* C9: the two tables are inverses of each other, no two codes share a     *)
(* display name, no display name is a code; so a label list_voices         *)
(* returned for a known code converts back to that code.                   *)
C9_TablesAreInverse ==
  /\ TablesInverse
  /\ \A t \in Threads :
       (req[t].kind = "voices" /\ pc[t] = "done" /\ pipeline[t] # NonePipeline) =>
         \A i \in DOMAIN pipeline[t].voices :
           pipeline[t].voices[i] \in KnownCodes =>
             Resolve(resp[t].payload[i]) = pipeline[t].voices[i]

(* C9's case: the label returned for af_bella is the display name another  *)
(* request sent and had converted to af_bella.                             *)
C9_Witness ==
  \E t \in Threads :
    /\ req[t].kind = "voices" /\ pc[t] = "done" /\ pipeline[t] # NonePipeline
    /\ \E i \in DOMAIN pipeline[t].voices :
         /\ pipeline[t].voices[i] = "af_bella"
         /\ resp[t].payload[i] = "[US] Bella [F][fire] (A-)"

(* C10: the list list_voices returns has the length of the pipeline's raw  *)
(* codes and holds, at each place, the display name of the code at that    *)
(* place, or the code followed by " (Unknown)".                            *)
C10_ListVoicesKeepsOrderAndLength ==
  \A t \in Threads :
    (req[t].kind = "voices" /\ pc[t] = "done" /\ pipeline[t] # NonePipeline) =>
      /\ resp[t].kind = "voices"
      /\ Len(resp[t].payload) = Len(pipeline[t].voices)
      /\ \A i \in DOMAIN pipeline[t].voices :
           resp[t].payload[i] =
             IF pipeline[t].voices[i] \in KnownCodes
               THEN voice_formats[pipeline[t].voices[i]]
               ELSE pipeline[t].voices[i] \o " (Unknown)"

(* C10's case: four raw codes, unknown ones between and after known ones.  *)
C10_Witness ==
  \E t \in Threads :
    /\ req[t].kind = "voices" /\ pc[t] = "done"
    /\ pipeline[t].voices = <<"af_bella", "yy_other", "af_alloy", "xx_custom">>
    /\ resp[t].payload = << "[US] Bella [F][fire] (A-)", "yy_other (Unknown)",
                            "[US] Alloy [F] (C)", "xx_custom (Unknown)" >>

(* C11: a generate request without a voice is synthesized with the code    *)
(* af_alloy, and the row its append adds to the ledger has "default" in    *)
(* the speaker column, not that code.                                      *)
C11_OmittedVoiceDefaultCodeDefaultSpeaker ==
  [][ \A t \in Threads :
        /\ (req'[t].kind = "generate" /\ req'[t].voice = None /\ synth'[t] # None)
             => synth'[t] = "af_alloy"
        /\ (req[t].kind = "generate" /\ req[t].voice = None
              /\ pc[t] = "write_log" /\ pc'[t] = "done" /\ ledger' # ledger)
             => /\ Len(ledger') > Len(ledger)
                /\ ledger'[Len(ledger')][3] = "default"
                /\ resp'[t].kind = "audio"
                /\ resp'[t].payload.voice = None
    ]_vars

(* C11's case: a request without a voice was synthesized with af_alloy,    *)
(* answered with success, and the last row of the ledger is its row.       *)
C11_Witness ==
  \E t \in Threads :
    /\ req[t].kind = "generate" /\ req[t].voice = None
    /\ pc[t] = "done" /\ resp[t].kind = "audio"
    /\ synth[t] = "af_alloy"
    /\ ledger # <<>>
    /\ ledger[Len(ledger)][3] = "default"

(* C12: nothing serializes first use.  The pipeline global changes only in *)
(* the store of a caller that had found it empty and went on to construct; *)
(* each such store is one more construction and leaves the new instance    *)
(* both in the global and with that caller, whatever the global held       *)
(* before; a caller goes on to construct only when it finds the global     *)
(* empty, and it does so when it finds it empty even while another caller  *)
(* is constructing; and the module cache changes only in the store that    *)
(* follows an import.                                                      *)
C12_CacheStoredOnlyByFirstUseCallers ==
  [][ /\ (_kokoro_pipeline' # _kokoro_pipeline \/ pipelineInits' # pipelineInits) =>
           \E t \in Threads :
             /\ pc[t] = "construct" /\ pc'[t] # "construct"
             /\ pipelineInits' = pipelineInits + 1
             /\ _kokoro_pipeline'.id = pipelineInits'
             /\ pipeline'[t] = _kokoro_pipeline'
      /\ \A t \in Threads :
           (pc[t] = "backend" /\ pc'[t] # "backend") =>
             (pc'[t] = "construct" <=> _kokoro_pipeline = NonePipeline)
      /\ _model_modules' # _model_modules =>
           \E t \in Threads : pc[t] = "import" /\ pc'[t] = "backend"
    ]_vars

(* C12's case: two callers found the global empty and both constructed a   *)
(* pipeline; the first holds the instance it stored and returned, the      *)
(* global holds the second caller's.                                       *)
C12_Witness ==
  \E a, b \in Threads :
    /\ a # b
    /\ pipelineInits = 2
    /\ pipeline[a].id = 1
    /\ pipeline[b].id = 2
    /\ _kokoro_pipeline = pipeline[b]
    /\ _kokoro_pipeline # pipeline[a]
============================================================================
